---- MODULE Spec2Model ----
(***************************************************************************)
(* State-machine model of the voice-to-voice relay: the Provider Client    *)
(* module (backend/openai_api.py) and the Request Router (backend/main.py).*)
(*                                                                         *)
(* Text is a sequence of one-character strings, audio a sequence of bytes  *)
(* (0..255), a conversation turn a record [role, content].  The remote     *)
(* provider is outside the program: each remote call either fails with a   *)
(* provider error or succeeds; a chat completion returns any content of    *)
(* ReplyContents, transcription and synthesis are functions of what they   *)
(* were sent.                                                              *)
(***************************************************************************)
EXTENDS Integers, Sequences, FiniteSets, TLC

VARIABLES
  environ,    \* value of OPENAI_API_KEY in the process environment
  api_key,    \* module global api_key of openai_api
  client,     \* module global client of openai_api
  load,       \* how far the module body of openai_api has run
  namespace,  \* the names module openai_api binds once its body has run
  spec_ops,   \* operations of the Provider Client taken from the specification
  router,     \* state of module main (the Request Router)
  fs,         \* the temporary directory: name -> bytes of the file, or NoFile
  req         \* the calls in progress, one record per slot

vars == <<environ, api_key, client, load, namespace, spec_ops, router, fs, req>>

-----------------------------------------------------------------------------
(* Bounds of the model.                                                    *)

\* how far past a truncation limit the enumerated inputs go
OverLen == 1
\* number of names the temporary directory can hold
MaxTmpFiles == 2
\* number of calls in progress at once under SpecConc
MaxConcurrent == 2

-----------------------------------------------------------------------------
(* Program constants.                                                      *)

\* history[-4:] if len(history) > 4
MaxHistory == 4
\* user_input[:500]
MaxUserChars == 500
\* reply_text[:400]
MaxReplyChars == 400

-----------------------------------------------------------------------------
(* Text.                                                                   *)

Whitespace == {" ", "\t", "\n"}

Min(S) == CHOOSE x \in S : \A y \in S : x <= y
Max(S) == CHOOSE x \in S : \A y \in S : x >= y

\* s[:n]
Take(s, n) == SubSeq(s, 1, IF Len(s) < n THEN Len(s) ELSE n)

\* s[-n:], n > 0
LastN(s, n) == SubSeq(s, IF Len(s) > n THEN Len(s) - n + 1 ELSE 1, Len(s))

\* str.strip(): the text without its leading and trailing whitespace
StripNoop(s) == s
Strip(s) ==
  LET keep == {i \in 1..Len(s) : s[i] \notin Whitespace}
  IN  IF keep = {} THEN <<>> ELSE SubSeq(s, Min(keep), Max(keep))

\* a text of n characters, no two neighbours equal
Chars(n) == [i \in 1..n |-> IF i % 2 = 1 THEN "a" ELSE "b"]

-----------------------------------------------------------------------------
(* base64.b64encode(audio_bytes).decode("utf-8"), and its inverse.         *)

B64Alphabet ==
  <<"A","B","C","D","E","F","G","H","I","J","K","L","M","N","O","P",
    "Q","R","S","T","U","V","W","X","Y","Z","a","b","c","d","e","f",
    "g","h","i","j","k","l","m","n","o","p","q","r","s","t","u","v",
    "w","x","y","z","0","1","2","3","4","5","6","7","8","9","+","/">>

\* one group of 1..3 bytes as 4 characters, padded with "="
B64Group(g) ==
  LET b2 == IF Len(g) >= 2 THEN g[2] ELSE 0
      b3 == IF Len(g) >= 3 THEN g[3] ELSE 0
      n  == g[1] * 65536 + b2 * 256 + b3
      c1 == B64Alphabet[(n \div 262144) + 1]
      c2 == B64Alphabet[((n \div 4096) % 64) + 1]
      c3 == IF Len(g) >= 2 THEN B64Alphabet[((n \div 64) % 64) + 1] ELSE "="
      c4 == IF Len(g) >= 3 THEN B64Alphabet[(n % 64) + 1] ELSE "="
  IN  <<c1, c2, c3, c4>>

RECURSIVE B64Encode(_)
B64Encode(bytes) ==
  IF Len(bytes) = 0 THEN <<>>
  ELSE B64Group(Take(bytes, 3)) \o B64Encode(SubSeq(bytes, 4, Len(bytes)))

B64Index(c) == IF c = "=" THEN 0 ELSE (CHOOSE i \in 1..64 : B64Alphabet[i] = c) - 1

B64Ungroup(q) ==
  LET n == B64Index(q[1]) * 262144 + B64Index(q[2]) * 4096
           + B64Index(q[3]) * 64 + B64Index(q[4])
      pad == IF q[3] = "=" THEN 2 ELSE IF q[4] = "=" THEN 1 ELSE 0
  IN  SubSeq(<<n \div 65536, (n \div 256) % 256, n % 256>>, 1, 3 - pad)

RECURSIVE B64Decode(_)
B64Decode(text) ==
  IF Len(text) = 0 THEN <<>>
  ELSE B64Ungroup(Take(text, 4)) \o B64Decode(SubSeq(text, 5, Len(text)))

-----------------------------------------------------------------------------
(* The remote provider.                                                    *)

\* the error texts a failed remote call carries
ProviderErrors == {"rate limit exceeded"}

\* message.content of a chat completion: a text, or None (NoContent)
NoContent == <<"None">>
ReplyContents ==
  { NoContent, <<>>, <<" ">>, <<"H", "i">>, <<" ", "H", "i", "\n">> }
  \cup { Chars(n) : n \in MaxReplyChars..(MaxReplyChars + OverLen) }

\* outcome of client.chat.completions.create
ChatOutcomes ==
  [ok : {TRUE}, content : ReplyContents, err : {""}]
  \cup [ok : {FALSE}, content : {<<>>}, err : ProviderErrors]

\* outcome of client.audio.speech.create / client.audio.transcriptions.create
CallOutcomes ==
  [ok : {TRUE}, content : {<<>>}, err : {""}]
  \cup [ok : {FALSE}, content : {<<>>}, err : ProviderErrors]

CharByte(c) == IF c \in Whitespace THEN 32 ELSE IF c = "a" THEN 97
               ELSE IF c = "b" THEN 98 ELSE IF c = "H" THEN 72 ELSE 105
VoiceByte(v) == IF v = "nova" THEN 1 ELSE 2

\* speech_resp.read(): the audio the provider synthesises for (input, voice)
Synth(input, voice) ==
  LET n == Len(input)
      last == IF n = 0 THEN 0 ELSE CharByte(input[n])
  IN  SubSeq(<<VoiceByte(voice), n % 256, last, n \div 256>>, 1, 1 + (n % 4))

\* resp.text: the transcript the provider returns for the bytes it read
Whisper(data) == <<"transcript of ", data>>

-----------------------------------------------------------------------------
(* Module load: openai_api.py lines 9-14 and 18-77, main.py line 6.         *)

NoValue == "<unset>"
\* what the process environment or the .env file may hold for OPENAI_API_KEY
KeyValues == {NoValue, "", "sk-test"}

\* the functions openai_api.py defines
ClientDefs == {"transcribe_audio", "chat_with_gpt"}
\* the operations of the Provider Client that main.py calls and src/ lacks
ClientSpecOps == {"generate_gpt_reply", "generate_tts"}
\* from openai_api import transcribe_audio, generate_gpt_reply, generate_tts
RouterImports == {"transcribe_audio", "generate_gpt_reply", "generate_tts"}

\* `not api_key`
KeyMissingNoneOnly(k) == k = NoValue
KeyMissing(k) == k = NoValue \/ k = ""

loadvars == <<environ, api_key, client, load, namespace, spec_ops, router>>

\* load_dotenv(): sets the variable from .env unless the environment has it
LoadDotenv ==
  /\ load = "start"
  /\ \E v \in KeyValues :
       environ' = IF environ = NoValue THEN v ELSE environ
  /\ load' = "dotenv"
  /\ UNCHANGED <<api_key, client, namespace, spec_ops, router, fs, req>>

\* api_key = os.getenv("OPENAI_API_KEY")
ReadApiKey ==
  /\ load = "dotenv"
  /\ api_key' = environ
  /\ load' = "key"
  /\ UNCHANGED <<environ, client, namespace, spec_ops, router, fs, req>>

\* if not api_key: raise RuntimeError(...)
CheckApiKey ==
  /\ load = "key"
  /\ load' = IF KeyMissing(api_key) THEN "failed" ELSE "checked"
  /\ UNCHANGED <<environ, api_key, client, namespace, spec_ops, router, fs, req>>

\* client = OpenAI(api_key=api_key)
ConstructClient ==
  /\ load = "checked"
  /\ client' = "constructed"
  /\ load' = "client"
  /\ UNCHANGED <<environ, api_key, namespace, spec_ops, router, fs, req>>

\* the def statements: the module's functions become importable
DefineOperations ==
  /\ load = "client"
  /\ namespace' = ClientDefs \cup spec_ops
  /\ load' = "loaded"
  /\ UNCHANGED <<environ, api_key, client, spec_ops, router, fs, req>>

\* main.py line 6: the import raises what the module body raised, or
\* ImportError when a name is not bound; otherwise the app is served
RouterImport ==
  /\ router = "unloaded"
  /\ load \in {"loaded", "failed"}
  /\ router' = IF load = "failed" THEN "config_error"
               ELSE IF RouterImports \subseteq namespace THEN "serving"
               ELSE "import_error"
  /\ UNCHANGED <<environ, api_key, client, load, namespace, spec_ops, fs, req>>

-----------------------------------------------------------------------------
(* Requests, responses and their inputs.                                   *)

Digits == <<"1", "2", "3", "4", "5", "6", "7", "8", "9">>

\* the i-th turn of a caller's history
Turn(i) == [role |-> IF i % 2 = 1 THEN "user" ELSE "assistant",
            content |-> <<"turn ", Digits[i]>>]

\* a history value: a list of turns, or some other JSON value
ListOf(n) == [list |-> TRUE, items |-> [i \in 1..n |-> Turn(i)]]
NotAList == [list |-> FALSE, items |-> <<Turn(1)>>]
EmptyHistory == ListOf(0)
HistoryInputs == {ListOf(n) : n \in 0..(MaxHistory + OverLen)} \cup {NotAList}

BlankTexts == {<<>>, <<" ">>, <<" ", "\t", "\n">>}
UserTexts ==
  {<<"H", "i">>, <<" ", "H", "i", " ">>}
  \cup {Chars(n) : n \in MaxUserChars..(MaxUserChars + OverLen)}
ReplyTexts ==
  {<<"H", "i">>, <<"\n", "H", "i">>}
  \cup {Chars(n) : n \in MaxReplyChars..(MaxReplyChars + OverLen)}
VoiceInputs == {"alloy"}

\* a JSON payload: the keys it has and their values
Payload(keys, text, history, voice) ==
  [keys |-> keys, text |-> text, history |-> history, voice |-> voice]
NoPayload == Payload({}, <<>>, EmptyHistory, "")

\* dict.get(key, default)
Get(payload, key, default) ==
  IF key \in payload.keys THEN payload[key] ELSE default

TextPayloads(texts) ==
  {NoPayload} \cup {Payload({"text"}, t, EmptyHistory, "") : t \in texts}
WithHistory(payloads, hists) ==
  payloads \cup {[p EXCEPT !.keys = @ \cup {"history"}, !.history = h] :
                   p \in payloads, h \in hists}
WithVoice(payloads, voices) ==
  payloads \cup {[p EXCEPT !.keys = @ \cup {"voice"}, !.voice = v] :
                   p \in payloads, v \in voices}

\* an upload: UploadFile.filename and the bytes file.read() returns
Uploads == [filename : {"rec.mp3", "rec"}, data : {"audio-A", "audio-B"}]
NoUpload == [filename |-> "", data |-> ""]

NoResp == [kind |-> "none", status |-> 0, error |-> <<>>, reply |-> <<>>,
           audio_base64 |-> <<>>, stream |-> <<>>, transcript |-> <<>>]
\* JSONResponse({"error": error}, status_code=status)
JSONError(status, error) ==
  [NoResp EXCEPT !.kind = "json", !.status = status, !.error = error]
\* an exception leaving a Provider Client operation called directly
Raised(exc) == [NoResp EXCEPT !.kind = "raise", !.error = exc]

TmpNames == 1..MaxTmpFiles
\* what a name of the temporary directory holds: a file's bytes, or NoFile
NoFile == "<no file>"

Idle ==
  [op |-> "idle", pc |-> "idle", payload |-> NoPayload, upload |-> NoUpload,
   user_text |-> <<>>, history |-> EmptyHistory, voice |-> "",
   messages |-> <<>>, reply_text |-> <<>>, tts_input |-> <<>>,
   returned |-> <<>>, calls |-> <<>>, tmp_path |-> 0, suffix |-> "",
   contents |-> "", read |-> "", resp |-> NoResp]

\* the slots a specification may use; those it uses are DOMAIN req
Slots == 1..MaxConcurrent

-----------------------------------------------------------------------------
(* Provider Client: prompt construction and the two chat remote calls.     *)

SYSTEM_PROMPT ==
  <<"You are a helpful assistant. Respond concisely in under 100 words.">>

\* if not isinstance(history, list): history = []
\* trimmed = history[-4:] if len(history) > 4 else history
TrimHistoryFirst(history) ==
  LET h == IF history.list THEN history.items ELSE <<>>
  IN  Take(h, MaxHistory)
TrimHistory(history) ==
  LET h == IF history.list THEN history.items ELSE <<>>
  IN  IF Len(h) > MaxHistory THEN LastN(h, MaxHistory) ELSE h

\* user_input[:500]
TruncateUserNot(user_input) == user_input
TruncateUser(user_input) == Take(user_input, MaxUserChars)

\* reply_text[:400]
TruncateReply(reply_text) == Take(reply_text, MaxReplyChars)

\* messages = [system] + trimmed + [user]
BuildMessages(user_input, history) ==
  <<[role |-> "system", content |-> SYSTEM_PROMPT]>>
  \o TrimHistory(history)
  \o <<[role |-> "user", content |-> TruncateUser(user_input)]>>

\* chat_resp = client.chat.completions.create(messages=messages, ...)
\* reply_text = chat_resp.choices[0].message.content.strip()
Completion(user_input, history, out) ==
  LET messages == BuildMessages(user_input, history)
      none == [raised |-> FALSE, exc |-> <<>>, out |-> out,
               messages |-> messages, reply |-> <<>>]
  IN  IF ~out.ok
        THEN [none EXCEPT !.raised = TRUE, !.exc = <<out.err>>]
      ELSE IF out.content = NoContent
        THEN [none EXCEPT !.raised = TRUE,
                !.exc = <<"'NoneType' object has no attribute 'strip'">>]
      ELSE [none EXCEPT !.reply = Strip(out.content)]

\* speech_resp = client.audio.speech.create(voice=voice, input=reply_text[:400], ...)
\* audio_bytes = speech_resp.read()
Speech(reply_text, voice, out) ==
  LET input == TruncateReply(reply_text)
      none == [raised |-> FALSE, exc |-> <<>>, out |-> out,
               input |-> input, audio |-> <<>>]
  IN  IF ~out.ok
        THEN [none EXCEPT !.raised = TRUE, !.exc = <<out.err>>]
      ELSE [none EXCEPT !.audio = Synth(input, voice)]

\* generate_gpt_reply(user_text, history) -> reply_text: the prompt and the
\* completion as above; a failure is re-raised under a descriptive message
generate_gpt_reply(user_text, history, out) ==
  LET r == Completion(user_text, history, out)
  IN  IF r.raised THEN [r EXCEPT !.exc = <<"Chat completion failed: ">> \o @] ELSE r

\* generate_tts(reply_text, voice) -> audio_bytes
generate_tts(reply_text, voice, out) ==
  LET r == Speech(reply_text, voice, out)
  IN  IF r.raised THEN [r EXCEPT !.exc = <<"Speech synthesis failed: ">> \o @] ELSE r

\* the record of a remote call: which one, the provider's outcome, and
\* whether the operation that made it raised
CallRecord(call, out, raised) == [call |-> call, out |-> out, raised |-> raised]

\* bookkeeping of a remote call: what was sent and what came back
AfterCompletion(q, r) ==
  [q EXCEPT !.messages = r.messages, !.returned = r.reply,
            !.calls = Append(@, CallRecord("chat", r.out, r.raised))]
AfterSpeech(q, t) ==
  [q EXCEPT !.tts_input = t.input,
            !.calls = Append(@, CallRecord("tts", t.out, t.raised))]

\* chat_with_gpt(user_input, history, voice) is entered
chat_with_gpt(user_input, history, voice) ==
  [Idle EXCEPT !.op = "chat_with_gpt", !.pc = "completion",
               !.payload = Payload({"text", "history", "voice"},
                                   user_input, history, voice),
               !.user_text = user_input, !.history = history, !.voice = voice]

\* chat_with_gpt, lines 53-67
chat_with_gpt_completion(q, out) ==
  LET r  == Completion(q.user_text, q.history, out)
      q1 == AfterCompletion(q, r)
  IN  IF r.raised
        THEN [q1 EXCEPT !.pc = "done", !.resp = Raised(r.exc)]
        ELSE [q1 EXCEPT !.pc = "speech", !.reply_text = r.reply]

\* chat_with_gpt, lines 69-77: return audio_bytes, reply_text
chat_with_gpt_speech(q, out) ==
  LET t  == Speech(q.reply_text, q.voice, out)
      q1 == AfterSpeech(q, t)
  IN  IF t.raised
        THEN [q1 EXCEPT !.pc = "done", !.resp = Raised(t.exc)]
        ELSE [q1 EXCEPT !.pc = "done",
                !.resp = [NoResp EXCEPT !.kind = "return", !.stream = t.audio,
                                        !.reply = q.reply_text]]

-----------------------------------------------------------------------------
(* Request Router: the three chat endpoints.                               *)

\* endpoint_chat_text, lines 24-28
endpoint_chat_text(payload) ==
  LET user_text == Strip(Get(payload, "text", <<>>))
      q == [Idle EXCEPT !.op = "/chat-text/", !.payload = payload,
                        !.user_text = user_text]
  IN  IF user_text = <<>>
        THEN [q EXCEPT !.pc = "done",
                !.resp = JSONError(400, <<"No text provided">>)]
        ELSE [q EXCEPT !.pc = "reply",
                !.history = Get(payload, "history", EmptyHistory)]

\* the handler without its try/except: the exception leaves the handler
endpoint_chat_text_reply_unhandled(q, out) ==
  LET r  == generate_gpt_reply(q.user_text, q.history, out)
      q1 == AfterCompletion(q, r)
  IN  IF r.raised
        THEN [q1 EXCEPT !.pc = "done", !.resp = Raised(r.exc)]
        ELSE [q1 EXCEPT !.pc = "done", !.reply_text = r.reply,
                !.resp = [NoResp EXCEPT !.kind = "json", !.status = 200,
                                        !.reply = r.reply]]

\* endpoint_chat_text, lines 29-33
endpoint_chat_text_reply(q, out) ==
  LET r  == generate_gpt_reply(q.user_text, q.history, out)
      q1 == AfterCompletion(q, r)
  IN  IF r.raised
        THEN [q1 EXCEPT !.pc = "done",
                !.resp = JSONError(500, <<"OpenAI error: ">> \o r.exc)]
        ELSE [q1 EXCEPT !.pc = "done", !.reply_text = r.reply,
                !.resp = [NoResp EXCEPT !.kind = "json", !.status = 200,
                                        !.reply = r.reply]]

\* endpoint_chat_voice, lines 36-41
endpoint_chat_voice(payload) ==
  LET reply_text == Strip(Get(payload, "text", <<>>))
      q == [Idle EXCEPT !.op = "/chat-voice/", !.payload = payload,
                        !.reply_text = reply_text]
  IN  IF reply_text = <<>>
        THEN [q EXCEPT !.pc = "done",
                !.resp = JSONError(400, <<"No text provided for TTS">>)]
        ELSE [q EXCEPT !.pc = "speech",
                !.voice = Get(payload, "voice", "nova")]

\* endpoint_chat_voice, lines 42-46
endpoint_chat_voice_speech(q, out) ==
  LET t  == generate_tts(q.reply_text, q.voice, out)
      q1 == AfterSpeech(q, t)
  IN  IF t.raised
        THEN [q1 EXCEPT !.pc = "done",
                !.resp = JSONError(500, <<"OpenAI error: ">> \o t.exc)]
        ELSE [q1 EXCEPT !.pc = "done",
                !.resp = [NoResp EXCEPT !.kind = "stream", !.status = 200,
                                        !.stream = t.audio]]

\* endpoint_chat, lines 55-59
endpoint_chat(payload) ==
  LET user_text == Strip(Get(payload, "text", <<>>))
      q == [Idle EXCEPT !.op = "/chat/", !.payload = payload,
                        !.user_text = user_text]
  IN  IF user_text = <<>>
        THEN [q EXCEPT !.pc = "done",
                !.resp = JSONError(400, <<"No text provided">>)]
        ELSE [q EXCEPT !.pc = "reply",
                !.history = Get(payload, "history", EmptyHistory),
                !.voice = Get(payload, "voice", "nova")]

\* the handler going on to synthesis whatever the completion did
endpoint_chat_reply_swallow(q, out) ==
  LET r  == generate_gpt_reply(q.user_text, q.history, out)
      q1 == AfterCompletion(q, r)
  IN  [q1 EXCEPT !.pc = "speech", !.reply_text = r.reply]

\* endpoint_chat, lines 60-61 and 64-65
endpoint_chat_reply(q, out) ==
  LET r  == generate_gpt_reply(q.user_text, q.history, out)
      q1 == AfterCompletion(q, r)
  IN  IF r.raised
        THEN [q1 EXCEPT !.pc = "done",
                !.resp = JSONError(500, <<"OpenAI error: ">> \o r.exc)]
        ELSE [q1 EXCEPT !.pc = "speech", !.reply_text = r.reply]

\* endpoint_chat, lines 62-66
endpoint_chat_speech(q, out) ==
  LET t  == generate_tts(q.reply_text, q.voice, out)
      q1 == AfterSpeech(q, t)
  IN  IF t.raised
        THEN [q1 EXCEPT !.pc = "done",
                !.resp = JSONError(500, <<"OpenAI error: ">> \o t.exc)]
        ELSE [q1 EXCEPT !.pc = "done",
                !.resp = [NoResp EXCEPT !.kind = "json", !.status = 200,
                                        !.reply = q.reply_text,
                                        !.audio_base64 = B64Encode(t.audio)]]

-----------------------------------------------------------------------------
(* Provider Client: transcribe_audio, and the /transcribe/ endpoint.       *)

\* Path(file.filename).suffix
PathSuffix(filename) == IF filename = "rec.mp3" THEN ".mp3" ELSE ""

\* the names NamedTemporaryFile may create: those no file has
AnyName(files) == TmpNames
FreshNames(files) == {n \in TmpNames : files[n] = NoFile}

\* endpoint_transcribe, lines 18-21
endpoint_transcribe(r) ==
  IF r.raised
    THEN JSONError(400, r.exc)
    ELSE [NoResp EXCEPT !.kind = "json", !.status = 200,
                        !.transcript = r.transcript]

\* transcribe_audio called directly: its return value or its exception
transcribe_audio_result(r) ==
  IF r.raised
    THEN Raised(r.exc)
    ELSE [NoResp EXCEPT !.kind = "return", !.transcript = r.transcript]

\* transcribe_audio leaves, by return or by exception
Exit(q, r) ==
  [q EXCEPT !.pc = "done",
            !.resp = IF q.op = "/transcribe/" THEN endpoint_transcribe(r)
                     ELSE transcribe_audio_result(r)]
Raise(exc) == [raised |-> TRUE, exc |-> exc, transcript |-> <<>>]
Return(transcript) == [raised |-> FALSE, exc |-> <<>>, transcript |-> transcript]

\* transcribe_audio(file) is called directly
TranscribeCall(s, uploads) ==
  /\ s \in DOMAIN req
  /\ load = "loaded"
  /\ req[s] = Idle
  /\ \E upload \in uploads :
       req' = [req EXCEPT ![s] = [Idle EXCEPT !.op = "transcribe_audio",
                                              !.pc = "read", !.upload = upload]]
  /\ UNCHANGED <<loadvars, fs>>

\* POST /transcribe/
TranscribeRequest(s, uploads) ==
  /\ s \in DOMAIN req
  /\ router = "serving"
  /\ req[s] = Idle
  /\ \E upload \in uploads :
       req' = [req EXCEPT ![s] = [Idle EXCEPT !.op = "/transcribe/",
                                              !.pc = "read", !.upload = upload]]
  /\ UNCHANGED <<loadvars, fs>>

\* lines 25-27: contents = await file.read(); suffix = ... or ".webm"
ReadUpload(s) ==
  /\ s \in DOMAIN req
  /\ req[s].pc = "read"
  /\ req' = [req EXCEPT ![s].contents = req[s].upload.data,
                        ![s].suffix =
                            IF PathSuffix(req[s].upload.filename) = "" THEN ".webm"
                            ELSE PathSuffix(req[s].upload.filename),
                        ![s].pc = "create"]
  /\ UNCHANGED <<loadvars, fs>>

\* line 29: tempfile.NamedTemporaryFile(delete=False, suffix=suffix)
CreateTemp(s) ==
  /\ s \in DOMAIN req
  /\ req[s].pc = "create"
  /\ \/ \E n \in FreshNames(fs) :
          /\ fs' = [fs EXCEPT ![n] = ""]
          /\ req' = [req EXCEPT ![s].tmp_path = n, ![s].pc = "write"]
     \/ /\ req' = [req EXCEPT ![s] =
                     Exit(@, Raise(<<"No usable temporary file name found">>))]
        /\ fs' = fs
  /\ UNCHANGED loadvars

\* lines 30-32: tmp.write(contents); tmp.flush(); the with block closes the
\* file and, with delete=False, keeps it, also when the write raised
WriteTemp(s) ==
  /\ s \in DOMAIN req
  /\ req[s].pc = "write"
  /\ \/ /\ fs' = [fs EXCEPT ![req[s].tmp_path] = req[s].contents]
        /\ req' = [req EXCEPT ![s].pc = "open"]
     \/ /\ req' = [req EXCEPT ![s] =
                     Exit(@, Raise(<<"[Errno 28] No space left on device">>))]
        /\ fs' = fs
  /\ UNCHANGED loadvars

\* lines 34-35 and 40-43: open(tmp_path, "rb"); when it raises, the handler
\* removes the file and raises RuntimeError
OpenTemp(s) ==
  /\ s \in DOMAIN req
  /\ req[s].pc = "open"
  /\ IF fs[req[s].tmp_path] = NoFile
       THEN /\ req' = [req EXCEPT ![s] =
                         Exit(@, Raise(<<"[Errno 2] No such file or directory">>))]
            /\ fs' = fs
       ELSE \/ /\ req' = [req EXCEPT ![s].pc = "remote"]
               /\ fs' = fs
            \/ /\ fs' = [fs EXCEPT ![req[s].tmp_path] = NoFile]
               /\ req' = [req EXCEPT ![s] =
                            Exit(@, Raise(<<"Whisper transcription failed: ",
                                            "[Errno 24] Too many open files">>))]
  /\ UNCHANGED loadvars

\* lines 36-39: client.audio.transcriptions.create(model="whisper-1", file=f)
RemoteTranscribe(s, outs) ==
  /\ s \in DOMAIN req
  /\ req[s].pc = "remote"
  /\ \E out \in outs :
       req' = [req EXCEPT ![s].read = IF fs[req[s].tmp_path] = NoFile
                                        THEN req[s].contents
                                        ELSE fs[req[s].tmp_path],
                          ![s].calls = Append(@, CallRecord("stt", out, ~out.ok)),
                          ![s].pc = "cleanup"]
  /\ UNCHANGED <<loadvars, fs>>

\* lines 40-46: os.remove(tmp_path), then raise RuntimeError or return
RemoveTemp(s) ==
  /\ s \in DOMAIN req
  /\ req[s].pc = "cleanup"
  /\ IF fs[req[s].tmp_path] = NoFile
       THEN /\ req' = [req EXCEPT ![s] =
                         Exit(@, Raise(<<"[Errno 2] No such file or directory">>))]
            /\ fs' = fs
       ELSE /\ fs' = [fs EXCEPT ![req[s].tmp_path] = NoFile]
            /\ req' = [req EXCEPT ![s] =
                         Exit(@, IF req[s].calls[1].raised
                                   THEN Raise(<<"Whisper transcription failed: ",
                                                req[s].calls[1].out.err>>)
                                   ELSE Return(Whisper(req[s].read)))]
  /\ UNCHANGED loadvars

-----------------------------------------------------------------------------
(* The chat operations as steps of a call in progress.                     *)

\* chat_with_gpt(user_input, history, voice) is called directly
ChatWithGptCall(s, texts, hists, voices) ==
  /\ s \in DOMAIN req
  /\ load = "loaded"
  /\ req[s] = Idle
  /\ \E user_input \in texts, history \in hists, voice \in voices :
       req' = [req EXCEPT ![s] = chat_with_gpt(user_input, history, voice)]
  /\ UNCHANGED <<loadvars, fs>>

ChatWithGptCompletion(s, outs) ==
  /\ s \in DOMAIN req
  /\ req[s].op = "chat_with_gpt" /\ req[s].pc = "completion"
  /\ \E out \in outs :
       req' = [req EXCEPT ![s] = chat_with_gpt_completion(@, out)]
  /\ UNCHANGED <<loadvars, fs>>

ChatWithGptSpeech(s, outs) ==
  /\ s \in DOMAIN req
  /\ req[s].op = "chat_with_gpt" /\ req[s].pc = "speech"
  /\ \E out \in outs :
       req' = [req EXCEPT ![s] = chat_with_gpt_speech(@, out)]
  /\ UNCHANGED <<loadvars, fs>>

\* POST /chat-text/
ChatText(s, payloads) ==
  /\ s \in DOMAIN req
  /\ router = "serving"
  /\ req[s] = Idle
  /\ \E payload \in payloads :
       req' = [req EXCEPT ![s] = endpoint_chat_text(payload)]
  /\ UNCHANGED <<loadvars, fs>>

ChatTextReply(s, outs) ==
  /\ s \in DOMAIN req
  /\ req[s].op = "/chat-text/" /\ req[s].pc = "reply"
  /\ \E out \in outs :
       req' = [req EXCEPT ![s] = endpoint_chat_text_reply(@, out)]
  /\ UNCHANGED <<loadvars, fs>>

\* POST /chat-voice/
ChatVoice(s, payloads) ==
  /\ s \in DOMAIN req
  /\ router = "serving"
  /\ req[s] = Idle
  /\ \E payload \in payloads :
       req' = [req EXCEPT ![s] = endpoint_chat_voice(payload)]
  /\ UNCHANGED <<loadvars, fs>>

ChatVoiceSpeech(s, outs) ==
  /\ s \in DOMAIN req
  /\ req[s].op = "/chat-voice/" /\ req[s].pc = "speech"
  /\ \E out \in outs :
       req' = [req EXCEPT ![s] = endpoint_chat_voice_speech(@, out)]
  /\ UNCHANGED <<loadvars, fs>>

\* POST /chat/
Chat(s, payloads) ==
  /\ s \in DOMAIN req
  /\ router = "serving"
  /\ req[s] = Idle
  /\ \E payload \in payloads :
       req' = [req EXCEPT ![s] = endpoint_chat(payload)]
  /\ UNCHANGED <<loadvars, fs>>

ChatReply(s, outs) ==
  /\ s \in DOMAIN req
  /\ req[s].op = "/chat/" /\ req[s].pc = "reply"
  /\ \E out \in outs :
       req' = [req EXCEPT ![s] = endpoint_chat_reply(@, out)]
  /\ UNCHANGED <<loadvars, fs>>

ChatSpeech(s, outs) ==
  /\ s \in DOMAIN req
  /\ req[s].op = "/chat/" /\ req[s].pc = "speech"
  /\ \E out \in outs :
       req' = [req EXCEPT ![s] = endpoint_chat_speech(@, out)]
  /\ UNCHANGED <<loadvars, fs>>

\* the response is sent (the caller has its result): the call's locals go
Release(s) ==
  /\ s \in DOMAIN req
  /\ req[s].pc = "done"
  /\ req' = [req EXCEPT ![s] = Idle]
  /\ UNCHANGED <<loadvars, fs>>

-----------------------------------------------------------------------------
(* Specifications.                                                         *)

InitModules(ops) ==
  /\ environ \in KeyValues
  /\ api_key = NoValue
  /\ client = "none"
  /\ load = "start"
  /\ namespace = {}
  /\ spec_ops = ops
  /\ router = "unloaded"
  /\ fs = [n \in TmpNames |-> NoFile]

\* the modules load
Load ==
  \/ LoadDotenv
  \/ ReadApiKey
  \/ CheckApiKey
  \/ ConstructClient
  \/ DefineOperations
  \/ RouterImport

\* the steps of transcribe_audio
Transcribing(s, in) ==
  \/ ReadUpload(s)
  \/ CreateTemp(s)
  \/ WriteTemp(s)
  \/ OpenTemp(s)
  \/ RemoteTranscribe(s, in.call_outs)
  \/ RemoveTemp(s)

\* the Provider Client of src/, called directly
ClientCalls(s, in) ==
  \/ TranscribeCall(s, in.uploads)
  \/ ChatWithGptCall(s, in.texts, in.hists, in.voices)
  \/ ChatWithGptCompletion(s, in.chat_outs)
  \/ ChatWithGptSpeech(s, in.call_outs)

\* the four endpoints
Endpoints(s, in) ==
  \/ TranscribeRequest(s, in.uploads)
  \/ ChatText(s, in.text_payloads)
  \/ ChatTextReply(s, in.chat_outs)
  \/ ChatVoice(s, in.voice_payloads)
  \/ ChatVoiceSpeech(s, in.call_outs)
  \/ Chat(s, in.chat_payloads)
  \/ ChatReply(s, in.chat_outs)
  \/ ChatSpeech(s, in.call_outs)

\* the inputs and provider outcomes enumerated with one call at a time
SeqInputs ==
  [uploads        |-> Uploads,
   texts          |-> UserTexts \cup {<<>>},
   hists          |-> HistoryInputs,
   voices         |-> {"nova"} \cup VoiceInputs,
   text_payloads  |-> WithHistory(TextPayloads(BlankTexts \cup UserTexts),
                                  HistoryInputs),
   voice_payloads |-> WithVoice(TextPayloads(BlankTexts \cup ReplyTexts),
                                VoiceInputs),
   chat_payloads  |-> WithVoice(WithHistory(TextPayloads(BlankTexts \cup UserTexts),
                                            HistoryInputs), VoiceInputs),
   chat_outs      |-> ChatOutcomes,
   call_outs      |-> CallOutcomes]

\* the inputs and provider outcomes enumerated with concurrent requests
ConcInputs ==
  [uploads        |-> [filename : {"rec.mp3"}, data : {"audio-A", "audio-B"}],
   texts          |-> {<<"H", "i">>},
   hists          |-> {ListOf(MaxHistory + 1)},
   voices         |-> {"nova"},
   text_payloads  |-> {Payload({"text", "history"}, <<" ", "H", "i", " ">>,
                               ListOf(MaxHistory + 1), "")},
   voice_payloads |-> {Payload({"text"}, <<"\n", "H", "i">>, EmptyHistory, "")},
   chat_payloads  |-> {Payload({"text", "history", "voice"}, <<"H", "i">>,
                               ListOf(MaxHistory + 1), "alloy")},
   chat_outs      |-> {o \in ChatOutcomes : ~o.ok \/ o.content = <<"H", "i">>},
   call_outs      |-> CallOutcomes]

(* Spec: the code of src/ alone, one call at a time.  main.py is loaded and *)
(* the functions of openai_api.py are called directly.                      *)
Init ==
  /\ InitModules({})
  /\ req = [s \in {1} |-> Idle]

Next ==
  \/ Load
  \/ \E s \in Slots :
       \/ ClientCalls(s, SeqInputs)
       \/ Transcribing(s, SeqInputs)
       \/ Release(s)

Spec == Init /\ [][Next]_vars

(* SpecRouter: the Provider Client also defines the operations the Router   *)
(* imports, as the specification describes them; one request at a time.     *)
InitRouter ==
  /\ InitModules(ClientSpecOps)
  /\ req = [s \in {1} |-> Idle]

NextRouter ==
  \/ Load
  \/ \E s \in Slots :
       \/ ClientCalls(s, SeqInputs)
       \/ Endpoints(s, SeqInputs)
       \/ Transcribing(s, SeqInputs)
       \/ Release(s)

SpecRouter == InitRouter /\ [][NextRouter]_vars

(* SpecConc: the Router serving up to MaxConcurrent requests at once, any   *)
(* interleaving of their steps.                                             *)
InitConc ==
  /\ InitModules(ClientSpecOps)
  /\ req = [s \in Slots |-> Idle]

NextConc ==
  \/ Load
  \/ \E s \in Slots :
       \/ Endpoints(s, ConcInputs)
       \/ Transcribing(s, ConcInputs)
       \/ Release(s)

SpecConc == InitConc /\ [][NextConc]_vars

-----------------------------------------------------------------------------
(* Vocabulary of the properties.                                           *)

Range(f) == {f[i] : i \in DOMAIN f}
InProgress == {s \in DOMAIN req : req[s].op # "idle"}
Finished == {s \in DOMAIN req : req[s].pc = "done"}
ChatEndpoints == {"/chat-text/", "/chat-voice/", "/chat/"}
AllEndpoints == ChatEndpoints \cup {"/transcribe/"}

\* the text is empty or all whitespace
IsBlank(t) == \A i \in 1..Len(t) : t[i] \in Whitespace
\* the first n characters of t, all of t when it is shorter
Prefix(t, n) == [i \in 1..(IF Len(t) < n THEN Len(t) ELSE n) |-> t[i]]
\* the last n elements of t in their order, Len(t) >= n
Suffix(t, n) == [i \in 1..n |-> t[Len(t) - n + i]]
\* the remote calls a request has made, in order
CallNames(q) == [i \in 1..Len(q.calls) |-> q.calls[i].call]
\* the provider errors a request has met
ProviderFailures(q) ==
  {q.calls[i].out.err : i \in {j \in 1..Len(q.calls) : ~q.calls[j].out.ok}}
\* the turns between the system message and the user message
HistoryPart(messages) == SubSeq(messages, 2, Len(messages) - 1)

-----------------------------------------------------------------------------
(* C1: a chat endpoint given a missing, empty or whitespace-only text       *)
(* answers 400 with an error field and makes no remote call.                *)
C1_BlankTextRejected ==
  \A s \in InProgress :
    (req[s].op \in ChatEndpoints /\ IsBlank(Get(req[s].payload, "text", <<>>)))
      => /\ req[s].pc = "done"
         /\ req[s].resp.kind = "json"
         /\ req[s].resp.status = 400
         /\ req[s].resp.error # <<>>
         /\ req[s].calls = <<>>

C1_Witness ==
  \E s \in Finished :
    /\ req[s].op = "/chat/"
    /\ "text" \in req[s].payload.keys
    /\ Len(req[s].payload.text) > 1
    /\ IsBlank(req[s].payload.text)
    /\ req[s].resp.status = 400

(* C2: once transcribe_audio has created its temporary file, the file no    *)
(* longer exists when the operation finishes, whichever step failed.        *)
C2_TempFileRemoved ==
  \A s \in Finished :
    req[s].tmp_path # 0 => fs[req[s].tmp_path] = NoFile

\* /chat-voice/ entered with {"text": text, "voice": voice}
ChatVoiceFor(text, voice) ==
  endpoint_chat_voice(Payload({"text", "voice"}, text, EmptyHistory, voice))
\* the provider synthesising without error
Synthesised == [ok |-> TRUE, content |-> <<>>, err |-> ""]

(* C3: a successful /chat/ returns a non-empty reply and an audio_base64    *)
(* that decodes to the bytes /chat-voice/ streams for that reply and voice. *)
C3_ChatMatchesChatVoice ==
  \A s \in Finished :
    (req[s].op = "/chat/" /\ req[s].resp.status = 200)
      => /\ req[s].resp.reply # <<>>
         /\ ChatVoiceFor(req[s].resp.reply, req[s].voice).pc = "speech"
         /\ endpoint_chat_voice_speech(
              ChatVoiceFor(req[s].resp.reply, req[s].voice), Synthesised).resp.stream
            = B64Decode(req[s].resp.audio_base64)

(* C4: the history sent to chat completion is the last 4 turns of the       *)
(* caller's history, in order, when it has more than 4, and the whole       *)
(* history otherwise; never more than 4 turns.                              *)
C4_HistoryTrimmed ==
  \A s \in InProgress :
    "chat" \in Range(CallNames(req[s]))
      => LET h    == req[s].payload.history
             sent == HistoryPart(req[s].messages)
         IN  /\ Len(sent) <= 4
             /\ h.list /\ Len(h.items) > 4 => sent = Suffix(h.items, 4)
             /\ h.list /\ Len(h.items) <= 4 => sent = h.items

C4_Witness ==
  \E s \in InProgress :
    /\ "chat" \in Range(CallNames(req[s]))
    /\ req[s].payload.history.list
    /\ Len(req[s].payload.history.items) > 4
    /\ Len(HistoryPart(req[s].messages)) = 4

(* C5: the user text reaches chat completion cut to its first 500           *)
(* characters and the reply reaches synthesis cut to its first 400; shorter *)
(* texts are sent whole; on every path that makes those calls.              *)
C5_TextsTruncated ==
  \A s \in InProgress :
    /\ "chat" \in Range(CallNames(req[s]))
         => req[s].messages[Len(req[s].messages)]
              = [role |-> "user", content |-> Prefix(req[s].user_text, 500)]
    /\ "tts" \in Range(CallNames(req[s]))
         => req[s].tts_input = Prefix(req[s].reply_text, 400)

C5_Witness ==
  \E s \in Finished :
    /\ req[s].op = "/chat/"
    /\ CallNames(req[s]) = <<"chat", "tts">>
    /\ Len(req[s].user_text) > 500
    /\ Len(req[s].reply_text) > 400
    /\ Len(req[s].tts_input) = 400
    /\ req[s].resp.status = 200

(* C6: /chat/ calls chat completion first and synthesis only after it       *)
(* succeeded, on the reply it returned; each at most once; a failure of     *)
(* either ends the request with a 500 carrying the error, and after a       *)
(* failed completion there is no synthesis and no partial result.           *)
C6_ChatSequencing ==
  \A s \in InProgress :
    req[s].op = "/chat/"
      => LET q == req[s]
         IN  /\ CallNames(q) \in {<<>>, <<"chat">>, <<"chat", "tts">>}
             /\ Len(q.calls) = 2
                  => /\ ~q.calls[1].raised
                     /\ q.tts_input = Prefix(q.returned, 400)
             /\ (q.pc = "speech") => (Len(q.calls) = 1 /\ ~q.calls[1].raised)
             /\ \A i \in 1..Len(q.calls) :
                  q.calls[i].raised
                    => /\ i = Len(q.calls)
                       /\ q.pc = "done"
                       /\ q.resp.kind = "json"
                       /\ q.resp.status = 500
                       /\ ProviderFailures(q) \subseteq Range(q.resp.error)
                       /\ q.resp.reply = <<>>
                       /\ q.resp.audio_base64 = <<>>
             /\ (q.pc = "done" /\ q.resp.status = 200)
                  => (Len(q.calls) = 2 /\ ~q.calls[2].raised)

C6_Witness ==
  \E s \in Finished :
    /\ req[s].op = "/chat/"
    /\ CallNames(req[s]) = <<"chat">>
    /\ ~req[s].calls[1].out.ok
    /\ req[s].resp.status = 500

(* C7: a failed remote call reaches the HTTP caller as an error response    *)
(* carrying the provider's error text, 400 from /transcribe/ and 500 from   *)
(* the chat endpoints; never a success, never an exception left unmapped.   *)
C7_ProviderFailureSurfaced ==
  \A s \in Finished :
    (req[s].op \in AllEndpoints /\ ProviderFailures(req[s]) # {})
      => /\ req[s].resp.kind = "json"
         /\ req[s].resp.status = IF req[s].op = "/transcribe/" THEN 400 ELSE 500
         /\ ProviderFailures(req[s]) \subseteq Range(req[s].resp.error)
         /\ req[s].resp.reply = <<>>
         /\ req[s].resp.audio_base64 = <<>>
         /\ req[s].resp.stream = <<>>
         /\ req[s].resp.transcript = <<>>

C7_Witness ==
  \E s \in Finished :
    /\ req[s].op = "/transcribe/"
    /\ ProviderFailures(req[s]) # {}
    /\ req[s].resp.status = 400

(* C8: with the credential absent or empty the load of the Provider Client  *)
(* raises before a client is constructed, and nothing is ever served or     *)
(* called.                                                                  *)
C8_FailFast ==
  /\ client = "constructed" => api_key \notin {NoValue, ""}
  /\ (load \notin {"start", "dotenv"} /\ api_key \in {NoValue, ""})
       => /\ load \in {"key", "failed"}
          /\ client = "none"
          /\ namespace = {}
          /\ router \in {"unloaded", "config_error"}
          /\ InProgress = {}
  /\ load = "failed" => api_key \in {NoValue, ""}

C8_Witness ==
  /\ load = "failed"
  /\ api_key = ""
  /\ router = "config_error"

(* C9: every operation the Router imports is defined by the Provider        *)
(* Client, so with the credential set the Router loads and serves.          *)
C9_RouterImportsDefined ==
  load = "loaded"
    => /\ RouterImports \subseteq namespace
       /\ router \in {"unloaded", "serving"}

\* the request has created its temporary file and not yet removed it
HoldsFile(q) == q.pc \in {"write", "open", "remote", "cleanup"}

\* the request run alone, with the provider outcomes it met
AloneChatText(q) ==
  LET a == endpoint_chat_text(q.payload)
  IN  IF a.pc = "done" THEN a ELSE endpoint_chat_text_reply(a, q.calls[1].out)
AloneChatVoice(q) ==
  LET a == endpoint_chat_voice(q.payload)
  IN  IF a.pc = "done" THEN a ELSE endpoint_chat_voice_speech(a, q.calls[1].out)
AloneChat(q) ==
  LET a == endpoint_chat(q.payload)
      b == endpoint_chat_reply(a, q.calls[1].out)
  IN  IF a.pc = "done" THEN a
      ELSE IF b.pc = "done" THEN b
      ELSE endpoint_chat_speech(b, q.calls[2].out)
AloneTranscribe(q) ==
  IF q.calls = <<>> THEN q.resp
  ELSE IF q.calls[1].out.ok
    THEN endpoint_transcribe(Return(Whisper(q.upload.data)))
    ELSE endpoint_transcribe(Raise(<<"Whisper transcription failed: ",
                                     q.calls[1].out.err>>))

(* C10: concurrent requests share no mutable state: each transcription has  *)
(* its own temporary file, which nobody else replaces or removes and which  *)
(* it removes only after the remote call has read it; each chat prompt is   *)
(* built from the request's own text and history; so every response is the  *)
(* one the request gets when it runs alone.                                 *)
C10_RequestsIndependent ==
  \A s \in InProgress :
    LET q == req[s]
    IN  /\ HoldsFile(q)
             => /\ fs[q.tmp_path] # NoFile
                /\ fs[q.tmp_path] \in {"", q.upload.data}
                /\ q.pc # "write" => fs[q.tmp_path] = q.upload.data
                /\ \A t \in InProgress \ {s} :
                     HoldsFile(req[t]) => req[t].tmp_path # q.tmp_path
        /\ (q.op = "/transcribe/" /\ q.calls # <<>>) => q.read = q.upload.data
        /\ (q.op = "/transcribe/" /\ q.pc = "done")
             => /\ q.resp = AloneTranscribe(q)
                /\ "[Errno 2] No such file or directory" \notin Range(q.resp.error)
        /\ (q.op \in {"/chat-text/", "/chat/"} /\ q.calls # <<>>)
             => q.messages = BuildMessages(Strip(Get(q.payload, "text", <<>>)),
                                           Get(q.payload, "history", EmptyHistory))
        /\ (q.op = "/chat-text/" /\ q.pc = "done") => q = AloneChatText(q)
        /\ (q.op = "/chat-voice/" /\ q.pc = "done") => q = AloneChatVoice(q)
        /\ (q.op = "/chat/" /\ q.pc = "done") => q = AloneChat(q)

C10_Witness ==
  \E s, t \in InProgress :
    /\ s # t
    /\ req[s].op = "/transcribe/" /\ req[t].op = "/transcribe/"
    /\ req[s].pc = "cleanup" /\ req[t].pc = "remote"
    /\ req[s].upload.data # req[t].upload.data
    /\ req[s].read = req[s].upload.data
    /\ fs[req[t].tmp_path] = req[t].upload.data

====
